---- MODULE Spec2Model ----
(***************************************************************************)
(* Model of make_upgates_variants_v3.py: build_variants turns a flat       *)
(* product table into one MAIN row followed by one variant row per input   *)
(* row.  Strings (column names and cell values) are sequences of           *)
(* one-character strings, so that strip, lower, substring search and the   *)
(* image-list split are computed the way the Python code computes them.    *)
(***************************************************************************)
EXTENDS Integers, Sequences, FiniteSets, TLC

\* ----------------------------------------------------------------- state
\* the arguments and locals of build_variants, its position pc and the
\* exception it raised, if any; df_in records the table as the caller
\* passed it (df itself is changed in place by ensure_col)
VARIABLES df_in, df, param_col, parent_code, main_title, template_index,
          cols, h, common_param_cols, base, main_only, variants, out, pc, err,
          run, first_run

\* ---------------------------------------------------------------- bounds
MaxRows == 2
MaxDropped == 1

\* ------------------------------------------------------- string helpers
None == <<>>

UpperChars == <<"A","B","C","D","E","F","G","H","I","J","K","L","M","N","O","P","Q","R","S","T","U","V","W","X","Y","Z">>
LowerChars == <<"a","b","c","d","e","f","g","h","i","j","k","l","m","n","o","p","q","r","s","t","u","v","w","x","y","z">>

Range(s) == {s[k] : k \in 1..Len(s)}

Min(S) == CHOOSE m \in S : \A n \in S : m <= n

Alphabet == Range(UpperChars) \cup Range(LowerChars) \cup Range(<<"0","1","2","3","4","5","6","7","8","9">>) \cup
            {"[", "]", "_", " ", ";", "|", ","}

\* str.lower and str.upper, one character at a time
lowerChar ==
  [c \in Alphabet |->
     IF \E k \in 1..Len(UpperChars) : UpperChars[k] = c
     THEN LowerChars[CHOOSE k \in 1..Len(UpperChars) : UpperChars[k] = c]
     ELSE c]

upperChar ==
  [c \in Alphabet |->
     IF \E k \in 1..Len(LowerChars) : LowerChars[k] = c
     THEN UpperChars[CHOOSE k \in 1..Len(LowerChars) : LowerChars[k] = c]
     ELSE c]

lower(s) == [k \in 1..Len(s) |-> lowerChar[s[k]]]

upper(s) == [k \in 1..Len(s) |-> upperChar[s[k]]]

IsSpace(c) == c = " "

RECURSIVE lstrip(_)
lstrip(s) == IF s # <<>> /\ IsSpace(Head(s)) THEN lstrip(Tail(s)) ELSE s

RECURSIVE rstrip(_)
rstrip(s) ==
  IF s # <<>> /\ IsSpace(s[Len(s)]) THEN rstrip(SubSeq(s, 1, Len(s) - 1)) ELSE s

strip(s) == rstrip(lstrip(s))

\* Python's  sub in s  on strings
In(sub, s) ==
  \E k \in 0..(Len(s) - Len(sub)) : SubSeq(s, k + 1, k + Len(sub)) = sub

\* pandas: series[key] = val (adds the label when it is not in the index)
SetItem(series, key, val) ==
  [c \in (DOMAIN series) \cup {key} |-> IF c = key THEN val ELSE series[c]]

\* the guarded form  if key: series[key] = val
SetIf(series, key, val) == IF key # None THEN SetItem(series, key, val) ELSE series

\* a run of guarded assignments <<key, val>>, applied in program order
RECURSIVE SetAll(_, _)
SetAll(series, assigns) ==
  IF assigns = <<>> THEN series
  ELSE SetAll(SetIf(series, Head(assigns)[1], Head(assigns)[2]), Tail(assigns))

\* ------------------------------------------------- normalize_header_map
base_fields ==
  [ PRODUCT_CODE |-> <<"P","R","O","D","U","C","T","_","C","O","D","E">>, VARIANT_YN |-> <<"V","A","R","I","A","N","T","_","Y","N">>,
    VARIANT_CODE |-> <<"V","A","R","I","A","N","T","_","C","O","D","E">>, MAIN_YN |-> <<"M","A","I","N","_","Y","N">>,
    ACTIVE_YN |-> <<"A","C","T","I","V","E","_","Y","N">>, ARCHIVED_YN |-> <<"A","R","C","H","I","V","E","D","_","Y","N">>,
    CAN_ADD_TO_BASKET_YN |-> <<"C","A","N","_","A","D","D","_","T","O","_","B","A","S","K","E","T","_","Y","N">>, LANGUAGE |-> <<"L","A","N","G","U","A","G","E">>,
    TITLE |-> <<"T","I","T","L","E">>, LONG_DESCRIPTION |-> <<"L","O","N","G","_","D","E","S","C","R","I","P","T","I","O","N">>,
    SHORT_DESCRIPTION |-> <<"S","H","O","R","T","_","D","E","S","C","R","I","P","T","I","O","N">>, SEO_URL |-> <<"S","E","O","_","U","R","L">>,
    SEO_TITLE |-> <<"S","E","O","_","T","I","T","L","E">>, SEO_DESCRIPTION |-> <<"S","E","O","_","D","E","S","C","R","I","P","T","I","O","N">>,
    EAN |-> <<"E","A","N">>, MANUFACTURER |-> <<"M","A","N","U","F","A","C","T","U","R","E","R">>,
    AVAILABILITY |-> <<"A","V","A","I","L","A","B","I","L","I","T","Y">>, AVAILABILITY_NOTE |-> <<"A","V","A","I","L","A","B","I","L","I","T","Y","_","N","O","T","E">>,
    STOCK |-> <<"S","T","O","C","K">>, WEIGHT |-> <<"W","E","I","G","H","T">>, UNIT |-> <<"U","N","I","T">>,
    SHIPMENT_GROUP |-> <<"S","H","I","P","M","E","N","T","_","G","R","O","U","P">>, VAT |-> <<"V","A","T">>,
    CATEGORIES |-> <<"C","A","T","E","G","O","R","I","E","S">>, IMAGES |-> <<"I","M","A","G","E","S">>, FILES |-> <<"F","I","L","E","S">>,
    IS_PRICES_WITH_VAT_YN |-> <<"I","S","_","P","R","I","C","E","S","_","W","I","T","H","_","V","A","T","_","Y","N">> ]

\* f"[{f}]"
Bracket(f) == <<"[">> \o f \o <<"]">>

\* the nested function find of normalize_header_map: an exact
\* (stripped, case-insensitive) match for any name variant wins; otherwise
\* the first column, in column order, that contains the first variant that
\* is contained anywhere; otherwise None
find(names, name_variants) ==
  LET exact(v) == {k \in 1..Len(names) : lower(strip(names[k])) = lower(v)}
      within(v) == {k \in 1..Len(names) : In(lower(v), lower(strip(names[k])))}
      E == {j \in 1..Len(name_variants) : exact(name_variants[j]) # {}}
      S == {j \in 1..Len(name_variants) : within(name_variants[j]) # {}}
  IN IF E # {} THEN names[Min(exact(name_variants[Min(E)]))]
     ELSE IF S # {} THEN names[Min(within(name_variants[Min(S)]))]
     ELSE None

normalize_header_map(names) ==
  [
    PRODUCT_CODE |-> find(names, <<Bracket(base_fields.PRODUCT_CODE), base_fields.PRODUCT_CODE>>),
    VARIANT_YN |-> find(names, <<Bracket(base_fields.VARIANT_YN), base_fields.VARIANT_YN>>),
    VARIANT_CODE |-> find(names, <<Bracket(base_fields.VARIANT_CODE), base_fields.VARIANT_CODE>>),
    MAIN_YN |-> find(names, <<Bracket(base_fields.MAIN_YN), base_fields.MAIN_YN>>),
    ACTIVE_YN |-> find(names, <<Bracket(base_fields.ACTIVE_YN), base_fields.ACTIVE_YN>>),
    ARCHIVED_YN |-> find(names, <<Bracket(base_fields.ARCHIVED_YN), base_fields.ARCHIVED_YN>>),
    CAN_ADD_TO_BASKET_YN |-> find(names, <<Bracket(base_fields.CAN_ADD_TO_BASKET_YN), base_fields.CAN_ADD_TO_BASKET_YN>>),
    LANGUAGE |-> find(names, <<Bracket(base_fields.LANGUAGE), base_fields.LANGUAGE>>),
    TITLE |-> find(names, <<Bracket(base_fields.TITLE), base_fields.TITLE>>),
    LONG_DESCRIPTION |-> find(names, <<Bracket(base_fields.LONG_DESCRIPTION), base_fields.LONG_DESCRIPTION>>),
    SHORT_DESCRIPTION |-> find(names, <<Bracket(base_fields.SHORT_DESCRIPTION), base_fields.SHORT_DESCRIPTION>>),
    SEO_URL |-> find(names, <<Bracket(base_fields.SEO_URL), base_fields.SEO_URL>>),
    SEO_TITLE |-> find(names, <<Bracket(base_fields.SEO_TITLE), base_fields.SEO_TITLE>>),
    SEO_DESCRIPTION |-> find(names, <<Bracket(base_fields.SEO_DESCRIPTION), base_fields.SEO_DESCRIPTION>>),
    EAN |-> find(names, <<Bracket(base_fields.EAN), base_fields.EAN>>),
    MANUFACTURER |-> find(names, <<Bracket(base_fields.MANUFACTURER), base_fields.MANUFACTURER>>),
    AVAILABILITY |-> find(names, <<Bracket(base_fields.AVAILABILITY), base_fields.AVAILABILITY>>),
    AVAILABILITY_NOTE |-> find(names, <<Bracket(base_fields.AVAILABILITY_NOTE), base_fields.AVAILABILITY_NOTE>>),
    STOCK |-> find(names, <<Bracket(base_fields.STOCK), base_fields.STOCK>>),
    WEIGHT |-> find(names, <<Bracket(base_fields.WEIGHT), base_fields.WEIGHT>>),
    UNIT |-> find(names, <<Bracket(base_fields.UNIT), base_fields.UNIT>>),
    SHIPMENT_GROUP |-> find(names, <<Bracket(base_fields.SHIPMENT_GROUP), base_fields.SHIPMENT_GROUP>>),
    VAT |-> find(names, <<Bracket(base_fields.VAT), base_fields.VAT>>),
    CATEGORIES |-> find(names, <<Bracket(base_fields.CATEGORIES), base_fields.CATEGORIES>>),
    IMAGES |-> find(names, <<Bracket(base_fields.IMAGES), base_fields.IMAGES>>),
    FILES |-> find(names, <<Bracket(base_fields.FILES), base_fields.FILES>>),
    IS_PRICES_WITH_VAT_YN |-> find(names, <<Bracket(base_fields.IS_PRICES_WITH_VAT_YN), base_fields.IS_PRICES_WITH_VAT_YN>>),
    PRICE_COLS |-> SelectSeq(names, LAMBDA c : In(<<"p","r","i","c","e">>, lower(c))),
    LABEL_COLS |-> SelectSeq(names, LAMBDA c : In(<<"L","A","B","E","L","_","A","C","T","I","V","E","_","Y","N">>, c)),
    PARAM_COLS |-> SelectSeq(names, LAMBDA c : In(<<"P","A","R","A","M","E","T","E","R">>, upper(c))) ]

\* ------------------------------------------------------------ ensure_col
ensure_col(d, col) ==
  IF col # None /\ col \notin Range(d.columns)
  THEN [columns |-> Append(d.columns, col),
        rows |-> [k \in 1..Len(d.rows) |-> SetItem(d.rows[k], col, <<>>)]]
  ELSE d

RECURSIVE ensure_all(_, _)
ensure_all(d, names) ==
  IF names = <<>> THEN d ELSE ensure_all(ensure_col(d, Head(names)), Tail(names))

\* ------------------------------------------- image list split and merge
IsDelim(c) == c \in {";", "|", ","}

\* re.split(r"[;|,]\s*", s)
RECURSIVE re_split(_)
re_split(s) ==
  IF \E k \in 1..Len(s) : IsDelim(s[k])
  THEN LET k == Min({j \in 1..Len(s) : IsDelim(s[j])})
       IN <<SubSeq(s, 1, k - 1)>> \o re_split(lstrip(SubSeq(s, k + 1, Len(s))))
  ELSE <<s>>

\* ";".join(parts)
RECURSIVE join(_)
join(parts) ==
  IF parts = <<>> THEN <<>>
  ELSE IF Len(parts) = 1 THEN parts[1]
  ELSE parts[1] \o <<";">> \o join(Tail(parts))

\* merge_parts without the test  p not in seen
RECURSIVE merge_parts_no_seen(_, _)
merge_parts_no_seen(acc, parts) ==
  IF parts = <<>> THEN acc
  ELSE LET p == strip(Head(parts))
       IN merge_parts_no_seen(IF p # <<>> THEN Append(acc, p) ELSE acc, Tail(parts))

\* the inner loop of merge_images_unique over the fragments of one value
RECURSIVE merge_parts(_, _)
merge_parts(acc, parts) ==
  IF parts = <<>> THEN acc
  ELSE LET p == strip(Head(parts))
       IN merge_parts(IF p # <<>> /\ p \notin Range(acc) THEN Append(acc, p) ELSE acc,
                      Tail(parts))

RECURSIVE merge_values(_, _)
merge_values(acc, values) ==
  IF values = <<>> THEN acc
  ELSE LET v == Head(values)
       IN merge_values(IF v = <<>> THEN acc ELSE merge_parts(acc, re_split(strip(v))),
                       Tail(values))

merge_images_unique(values) == join(merge_values(<<>>, values))

first_image(value) ==
  IF value = <<>> THEN <<>>
  ELSE LET parts == re_split(strip(value))
       IN IF parts # <<>> THEN strip(parts[1]) ELSE <<>>

\* ------------------------------------------------- build_variants, by part
\* lines 125-127: the fuzzy match of the caller's parameter name
fuzzy_param(hm, p) ==
  IF p # None /\ p \notin Range(hm.PARAM_COLS)
  THEN LET matches == SelectSeq(hm.PARAM_COLS, LAMBDA c : In(lower(strip(p)), lower(c)))
       IN IF matches # <<>> THEN matches[1] ELSE p
  ELSE p

\* common_params comparing the raw values, without strip
common_params_unstripped(d, hm) ==
  SelectSeq(hm.PARAM_COLS,
            LAMBDA c : Cardinality({d.rows[k][c] : k \in 1..Len(d.rows)} \ {<<>>}) <= 1)

\* lines 129-133: parameter columns with at most one distinct non-empty
\* stripped value over all rows
common_params(d, hm) ==
  SelectSeq(hm.PARAM_COLS,
            LAMBDA c : Cardinality({strip(d.rows[k][c]) : k \in 1..Len(d.rows)} \ {<<>>}) <= 1)

\* lines 137-139
main_only_cols(hm) ==
  SelectSeq(<<hm.TITLE, hm.LONG_DESCRIPTION, hm.SHORT_DESCRIPTION, hm.SEO_URL,
              hm.SEO_TITLE, hm.SEO_DESCRIPTION, hm.MANUFACTURER, hm.AVAILABILITY,
              hm.AVAILABILITY_NOTE, hm.UNIT, hm.VAT, hm.CATEGORIES>>,
            LAMBDA c : c # None)

\* df.iloc[template_index]: negative positions count from the end
iloc_ok(d, t) == -Len(d.rows) <= t /\ t < Len(d.rows)

iloc(d, t) == IF t >= 0 THEN d.rows[t + 1] ELSE d.rows[Len(d.rows) + t + 1]

\* lines 142-145: the columns whose presence is ensured, in order
ensured_names(hm) ==
  LET flag(k) == IF hm[k] # None THEN hm[k] ELSE Bracket(base_fields[k])
  IN <<flag("VARIANT_YN"), flag("VARIANT_CODE"), flag("MAIN_YN"), flag("ACTIVE_YN"),
       flag("ARCHIVED_YN"), flag("CAN_ADD_TO_BASKET_YN"), flag("IS_PRICES_WITH_VAT_YN")>>
     \o hm.LABEL_COLS \o hm.PRICE_COLS

Column(d, c) == [k \in 1..Len(d.rows) |-> d.rows[k][c]]

LabelAssigns(hm) == [k \in 1..Len(hm.LABEL_COLS) |-> <<hm.LABEL_COLS[k], <<"0">>>>]

\* lines 148-162: the assignments to the MAIN row, in program order
main_flags(b, d, hm, p, title) ==
  SetAll(b,
    << <<hm.LANGUAGE, <<"s","k">>>>,
       <<hm.VARIANT_YN, <<"0">>>>,
       <<hm.VARIANT_CODE, <<>>>>,
       <<hm.MAIN_YN, <<>>>>,
       <<hm.ACTIVE_YN, <<"1">>>>,
       <<hm.ARCHIVED_YN, <<"0">>>>,
       <<hm.CAN_ADD_TO_BASKET_YN, <<"1">>>>,
       <<hm.IS_PRICES_WITH_VAT_YN, <<"1">>>>,
       <<hm.EAN, <<>>>>,
       <<hm.STOCK, <<>>>>,
       <<hm.WEIGHT, <<>>>>,
       <<p, <<>>>>,
       <<IF title # None THEN hm.TITLE ELSE None, title>>,
       <<hm.IMAGES, IF hm.IMAGES # None THEN merge_images_unique(Column(d, hm.IMAGES)) ELSE <<>>>>
    >> \o LabelAssigns(hm))

ClearAssigns(names) == [k \in 1..Len(names) |-> <<names[k], <<>>>>]

\* variant_row that also blanks EAN, stock and weight, as the MAIN row does
variant_row_clears_ean(row, hm, code, mo, common) ==
  LET orig_code == row[hm.PRODUCT_CODE]
  IN SetAll(row,
       << <<hm.PRODUCT_CODE, code>>,
          <<hm.VARIANT_YN, <<"1">>>>,
          <<hm.VARIANT_CODE, orig_code>>,
          <<hm.MAIN_YN, <<"0">>>>,
          <<hm.ACTIVE_YN, <<"1">>>>,
          <<hm.ARCHIVED_YN, <<>>>>,
          <<hm.CAN_ADD_TO_BASKET_YN, <<>>>>,
          <<hm.IS_PRICES_WITH_VAT_YN, <<"1">>>>,
          <<hm.EAN, <<>>>>,
          <<hm.STOCK, <<>>>>,
          <<hm.WEIGHT, <<>>>> >>
       \o ClearAssigns(mo)
       \o ClearAssigns(common)
       \o << <<hm.IMAGES, IF hm.IMAGES # None THEN first_image(row[hm.IMAGES]) ELSE <<>>>> >>
       \o LabelAssigns(hm))

\* lines 167-185: the variant row made from one row of the table
variant_row(row, hm, code, mo, common) ==
  LET orig_code == row[hm.PRODUCT_CODE]
  IN SetAll(row,
       << <<hm.PRODUCT_CODE, code>>,
          <<hm.VARIANT_YN, <<"1">>>>,
          <<hm.VARIANT_CODE, orig_code>>,
          <<hm.MAIN_YN, <<"0">>>>,
          <<hm.ACTIVE_YN, <<"1">>>>,
          <<hm.ARCHIVED_YN, <<>>>>,
          <<hm.CAN_ADD_TO_BASKET_YN, <<>>>>,
          <<hm.IS_PRICES_WITH_VAT_YN, <<"1">>>> >>
       \o ClearAssigns(mo)
       \o ClearAssigns(common)
       \o << <<hm.IMAGES, IF hm.IMAGES # None THEN first_image(row[hm.IMAGES]) ELSE <<>>>> >>
       \o LabelAssigns(hm))

\* lines 188-189: pd.DataFrame(out_rows, columns=cols) keeps exactly the
\* columns cols; a label a row lacks comes out as NaN
NaN == <<"N","a","N">>

Reindex(series, cs) ==
  [c \in Range(cs) |-> IF c \in DOMAIN series THEN series[c] ELSE NaN]

\* assemble with the MAIN row appended after the variants
assemble_main_last(b, vs, cs) ==
  [columns |-> cs,
   rows |-> [k \in 1..(1 + Len(vs)) |-> Reindex((vs \o <<b>>)[k], cs)]]

assemble(b, vs, cs) ==
  [columns |-> cs,
   rows |-> [k \in 1..(1 + Len(vs)) |-> Reindex((<<b>> \o vs)[k], cs)]]

\* ------------------------------------------------------------- the inputs
FullHeader ==
  << <<"[","P","R","O","D","U","C","T","_","C","O","D","E","]">>, <<"[","V","A","R","I","A","N","T","_","Y","N","]">>, <<"[","V","A","R","I","A","N","T","_","C","O","D","E","]">>, <<"[","L","A","B","E","L","_","A","C","T","I","V","E","_","Y","N"," ","N","e","w","]">>,
     <<"[","T","I","T","L","E","]">>, <<"[","E","A","N","]">>, <<"[","V","A","T","]">>, <<"[","I","M","A","G","E","S","]">>, <<"[","I","S","_","P","R","I","C","E","S","_","W","I","T","H","_","V","A","T","_","Y","N","]">>,
     <<"[","P","R","I","C","E","_","W","I","T","H","_","V","A","T","]">>, <<"[","P","A","R","A","M","E","T","E","R"," ","S","i","z","e","]">>, <<"[","P","A","R","A","M","E","T","E","R"," ","M","a","t","e","r","i","a","l","]">> >>

\* the columns an export may lack
Droppable ==
  { <<"[","P","R","O","D","U","C","T","_","C","O","D","E","]">>, <<"[","V","A","R","I","A","N","T","_","Y","N","]">>, <<"[","V","A","R","I","A","N","T","_","C","O","D","E","]">>, <<"[","T","I","T","L","E","]">>, <<"[","V","A","T","]">>,
    <<"[","I","M","A","G","E","S","]">>, <<"[","I","S","_","P","R","I","C","E","S","_","W","I","T","H","_","V","A","T","_","Y","N","]">>, <<"[","P","A","R","A","M","E","T","E","R"," ","S","i","z","e","]">> }

\* the header without the columns D, in column order
Keep(cs, D) == SelectSeq(cs, LAMBDA c : c \notin D)

Headers ==
  {Keep(FullHeader, D) : D \in {X \in SUBSET Droppable : Cardinality(X) <= MaxDropped}}

Digits == <<"0","1","2","3","4","5","6","7","8","9">>

\* the cells that vary between rows: image list, two parameters, tax flag
RowKinds ==
  { [img |-> <<" ","a"," ",";","b">>,  size |-> <<"S">>,  mat |-> <<"x">>, flag |-> <<"0">>],
    [img |-> <<>>,       size |-> <<" ","S">>, mat |-> <<>>,  flag |-> <<"1">>],
    [img |-> <<","," ","b","|","a">>,  size |-> <<"M">>,  mat |-> <<"y">>, flag |-> <<"0">>] }

Cell(i, c, kind) ==
  CASE c = <<"[","P","R","O","D","U","C","T","_","C","O","D","E","]">> -> <<"c", Digits[i + 1]>>
    [] c = <<"[","V","A","R","I","A","N","T","_","Y","N","]">> -> <<"0">>
    [] c = <<"[","V","A","R","I","A","N","T","_","C","O","D","E","]">> -> <<>>
    [] c = <<"[","L","A","B","E","L","_","A","C","T","I","V","E","_","Y","N"," ","N","e","w","]">> -> <<"1">>
    [] c = <<"[","T","I","T","L","E","]">> -> <<"t", Digits[i + 1]>>
    [] c = <<"[","E","A","N","]">> -> <<"e", Digits[i + 1]>>
    [] c = <<"[","V","A","T","]">> -> <<"2","0">>
    [] c = <<"[","I","M","A","G","E","S","]">> -> kind.img
    [] c = <<"[","I","S","_","P","R","I","C","E","S","_","W","I","T","H","_","V","A","T","_","Y","N","]">> -> kind.flag
    [] c = <<"[","P","R","I","C","E","_","W","I","T","H","_","V","A","T","]">> -> <<"9", Digits[i + 1]>>
    [] c = <<"[","P","A","R","A","M","E","T","E","R"," ","S","i","z","e","]">> -> kind.size
    [] c = <<"[","P","A","R","A","M","E","T","E","R"," ","M","a","t","e","r","i","a","l","]">> -> kind.mat

Table(cs, kinds) ==
  [columns |-> cs,
   rows |-> [k \in 1..Len(kinds) |-> [c \in Range(cs) |-> Cell(k, c, kinds[k])]]]

KindSeqs == UNION {[1..n -> RowKinds] : n \in 0..MaxRows}

ParamNames(cs) == {None, <<"s","i","z","e">>, <<"c","o","l","o","r">>} \cup Range(cs)

ParentCodes == {<<"P">>}

Titles == {None, <<"T">>}

TemplateIndexes(n) == {-(n + 1), -1, 0, n}

\* normalize_header_map is a pure function of the column names: its value
\* for each header the inputs can have is computed once and looked up
\* the headers a call can meet: those of the inputs, and those a first call
\* leaves behind after its ensure_col loop
HeadersAfterRun ==
  {ensure_all([columns |-> cs, rows |-> <<>>],
              ensured_names(normalize_header_map(cs))).columns : cs \in Headers}

HeaderMaps ==
  {<<cs, normalize_header_map(cs)>> : cs \in Headers \cup HeadersAfterRun}

header_map(cs) ==
  IF cs \in Headers \cup HeadersAfterRun
  THEN (CHOOSE p \in HeaderMaps : p[1] = cs)[2]
  ELSE normalize_header_map(cs)

\* ---------------------------------------------------------------- state
vars == <<df_in, df, param_col, parent_code, main_title, template_index,
          cols, h, common_param_cols, base, main_only, variants, out, pc, err,
          run, first_run>>

args == <<df_in, parent_code, main_title, template_index>>

\* the caller's side: which call of build_variants is running, and what the
\* first call was given and what it returned
caller == <<run, first_run>>

Init ==
  /\ \E cs \in Headers : \E kinds \in KindSeqs : df = Table(cs, kinds)
  /\ df_in = df
  /\ param_col \in ParamNames(df.columns)
  /\ parent_code \in ParentCodes
  /\ main_title \in Titles
  /\ template_index \in TemplateIndexes(Len(df.rows))
  /\ cols = <<>>
  /\ h = <<>>
  /\ common_param_cols = <<>>
  /\ base = <<>>
  /\ main_only = <<>>
  /\ variants = <<>>
  /\ out = <<>>
  /\ pc = "start"
  /\ err = "none"
  /\ run = 1
  /\ first_run = [param_col |-> param_col, out |-> <<>>]

\* lines 120-123, the header without a product-code column
MissingProductCode ==
  /\ pc = "start"
  /\ cols' = df.columns
  /\ h' = header_map(df.columns)
  /\ h'.PRODUCT_CODE = None
  /\ pc' = "error"
  /\ err' = "RuntimeError"
  /\ UNCHANGED <<df, param_col, args, caller, common_param_cols, base, main_only, variants, out>>

\* lines 120-133
Resolve ==
  /\ pc = "start"
  /\ cols' = df.columns
  /\ h' = header_map(df.columns)
  /\ h'.PRODUCT_CODE # None
  /\ param_col' = fuzzy_param(h', param_col)
  /\ common_param_cols' = common_params(df, h')
  /\ pc' = "template"
  /\ UNCHANGED <<df, args, caller, base, main_only, variants, out, err>>

\* line 135 with a position outside the table
TemplateOutOfRange ==
  /\ pc = "template"
  /\ ~iloc_ok(df, template_index)
  /\ pc' = "error"
  /\ err' = "IndexError"
  /\ UNCHANGED <<df, param_col, args, caller, cols, h, common_param_cols, base, main_only,
                 variants, out>>

\* lines 135-139
MakeBase ==
  /\ pc = "template"
  /\ iloc_ok(df, template_index)
  /\ base' = SetItem(iloc(df, template_index), h.PRODUCT_CODE, parent_code)
  /\ main_only' = main_only_cols(h)
  /\ pc' = "ensure"
  /\ UNCHANGED <<df, param_col, args, caller, cols, h, common_param_cols, variants, out, err>>

\* lines 141-162
MainFlags ==
  /\ pc = "ensure"
  /\ df' = ensure_all(df, ensured_names(h))
  /\ base' = main_flags(base, df', h, param_col, main_title)
  /\ pc' = "variants"
  /\ UNCHANGED <<param_col, args, caller, cols, h, common_param_cols, main_only, variants, out, err>>

\* lines 166-186, one iteration of the loop over the rows
Variant ==
  /\ pc = "variants"
  /\ Len(variants) < Len(df.rows)
  /\ variants' = Append(variants,
                        variant_row(df.rows[Len(variants) + 1], h, parent_code,
                                    main_only, common_param_cols))
  /\ UNCHANGED <<df, param_col, args, caller, cols, h, common_param_cols, base, main_only,
                 out, pc, err>>

\* lines 188-190
Assemble ==
  /\ pc = "variants"
  /\ Len(variants) = Len(df.rows)
  /\ out' = assemble(base, variants, cols)
  /\ pc' = "done"
  /\ UNCHANGED <<df, param_col, args, caller, cols, h, common_param_cols, base, main_only,
                 variants, err>>

\* the caller calls build_variants again with the same DataFrame object and
\* the same arguments, after the first call returned
CallAgain ==
  /\ run = 1
  /\ pc = "done"
  /\ run' = 2
  /\ first_run' = [first_run EXCEPT !.out = out]
  /\ df_in' = df
  /\ param_col' = first_run.param_col
  /\ cols' = <<>>
  /\ h' = <<>>
  /\ common_param_cols' = <<>>
  /\ base' = <<>>
  /\ main_only' = <<>>
  /\ variants' = <<>>
  /\ out' = <<>>
  /\ pc' = "start"
  /\ err' = "none"
  /\ UNCHANGED <<df, parent_code, main_title, template_index>>

Next ==
  \/ MissingProductCode
  \/ Resolve
  \/ TemplateOutOfRange
  \/ MakeBase
  \/ MainFlags
  \/ Variant
  \/ Assemble
  \/ CallAgain

Spec == Init /\ [][Next]_vars

\* ------------------------------------------------------------ properties
Done == pc = "done"

TypeOK == pc \in {"start", "template", "ensure", "variants", "done", "error"}

NRows == Len(df_in.rows)

\* the MAIN row and the variant made from input row i (1-based) in the output
MainOut == out.rows[1]

VariantOut(i) == out.rows[i + 1]

\* the caller named a distinguishing parameter and it was resolved to a
\* parameter column / it was named but matches no parameter column
ParamResolved == param_col # None /\ param_col \in Range(h.PARAM_COLS)

ParamUnresolved == param_col # None /\ param_col \notin Range(h.PARAM_COLS)

\* C1: every output row carries the parent code in the product-code column,
\* and each variant's variant-code column holds the product code its input
\* row had before it was overwritten.
C1_SharedCode ==
  Done =>
    /\ \A k \in 1..Len(out.rows) : out.rows[k][h.PRODUCT_CODE] = parent_code
    /\ h.VARIANT_CODE # None =>
         \A i \in 1..NRows : VariantOut(i)[h.VARIANT_CODE] = df_in.rows[i][h.PRODUCT_CODE]

\* the columns build_variants assigns on a variant row; every other column
\* of a variant row is a copy of the input row's cell
AssignedOnVariant ==
  ({h.PRODUCT_CODE, h.VARIANT_YN, h.VARIANT_CODE, h.MAIN_YN, h.ACTIVE_YN,
    h.ARCHIVED_YN, h.CAN_ADD_TO_BASKET_YN, h.IS_PRICES_WITH_VAT_YN, h.IMAGES}
   \cup Range(main_only) \cup Range(common_param_cols) \cup Range(h.LABEL_COLS))
  \ {None}

\* C2: N input rows give N+1 output rows with the input's columns in the
\* input's order; row 0 is the MAIN record and rows 1..N are the variants of
\* input rows 0..N-1 in input order.
C2_Shape ==
  Done =>
    /\ Len(out.rows) = NRows + 1
    /\ out.columns = df_in.columns
    /\ \A k \in 1..Len(out.rows) : DOMAIN out.rows[k] = Range(df_in.columns)
    /\ \A c \in Range(df_in.columns) : MainOut[c] = base[c]
    /\ \A i \in 1..NRows :
         \A c \in Range(df_in.columns) \ AssignedOnVariant :
           VariantOut(i)[c] = df_in.rows[i][c]

C2_Witness ==
  /\ Done
  /\ NRows >= 2
  /\ h.EAN # None
  /\ VariantOut(1)[h.EAN] # VariantOut(2)[h.EAN]
  /\ MainOut[h.EAN] = <<>>

\* C3: a resolved distinguishing parameter column is empty on MAIN and keeps
\* the input row's value on every variant row, for every dataset.
C3_DistinguishingKept ==
  (Done /\ ParamResolved) =>
    /\ MainOut[param_col] = <<>>
    /\ \A i \in 1..NRows : VariantOut(i)[param_col] = df_in.rows[i][param_col]

\* the distinct non-empty trimmed values of a column over the input rows
TrimmedValues(c) == {strip(df_in.rows[i][c]) : i \in 1..NRows} \ {<<>>}

FragmentsBy(s, D) ==
  LET cut == {0} \cup {k \in 1..Len(s) : s[k] \in D} \cup {Len(s) + 1}
      at(j) == CHOOSE p \in cut : Cardinality({q \in cut : q < p}) = j - 1
  IN [j \in 1..(Cardinality(cut) - 1) |-> SubSeq(s, at(j) + 1, at(j + 1) - 1)]

\* the image tokens of one cell: trimmed, non-empty, in order
ImageTokens(v) ==
  LET frags == FragmentsBy(v, {";", "|", ","})
  IN SelectSeq([j \in 1..Len(frags) |-> strip(frags[j])], LAMBDA t : t # <<>>)

\* the image tokens of input rows 1..n, one after the other
RECURSIVE InputTokens(_)
InputTokens(n) ==
  IF n = 0 THEN <<>> ELSE InputTokens(n - 1) \o ImageTokens(df_in.rows[n][h.IMAGES])

\* the position at which token t is first seen in the sequence toks
FirstSeen(toks, t) == Min({k \in 1..Len(toks) : toks[k] = t})

\* C5: the MAIN image cell lists every distinct trimmed non-empty image token
\* of the input exactly once, in order of first occurrence, joined by ';'.
C5_MainImages ==
  (Done /\ h.IMAGES # None) =>
    LET img == MainOut[h.IMAGES]
        R == IF img = <<>> THEN <<>> ELSE FragmentsBy(img, {";"})
        toks == InputTokens(NRows)
    IN /\ Range(R) = Range(toks)
       /\ \A a, b \in 1..Len(R) : a < b => FirstSeen(toks, R[a]) < FirstSeen(toks, R[b])

C5_Witness ==
  /\ Done
  /\ h.IMAGES # None
  /\ NRows >= 2
  /\ Range(ImageTokens(df_in.rows[1][h.IMAGES])) \cap Range(ImageTokens(df_in.rows[2][h.IMAGES])) # {}
  /\ ImageTokens(df_in.rows[1][h.IMAGES]) # ImageTokens(df_in.rows[2][h.IMAGES])
  /\ Len(FragmentsBy(MainOut[h.IMAGES], {";"})) >= 2

\* first(value) as the specification words it
FirstToken(v) == IF ImageTokens(v) = <<>> THEN <<>> ELSE ImageTokens(v)[1]

\* C6: each variant's image cell is the first non-empty trimmed fragment of
\* its input row's image cell, or empty when there is none.
C6_FirstImage ==
  (Done /\ h.IMAGES # None) =>
    \A i \in 1..NRows : VariantOut(i)[h.IMAGES] = FirstToken(df_in.rows[i][h.IMAGES])

\* C7: the prices-include-tax flag column, when the header has it, is "1" on
\* every output row.
C7_TaxFlagEverywhere ==
  (Done /\ h.IS_PRICES_WITH_VAT_YN # None) =>
    \A k \in 1..Len(out.rows) : out.rows[k][h.IS_PRICES_WITH_VAT_YN] = <<"1">>

\* the template row as the caller selected it
TemplateRow == iloc(df_in, template_index)

\* C8: every main-only column is empty on every variant row and holds the
\* template row's value on MAIN, the title being the caller's title when
\* one is given.
C8_MainOnly ==
  Done =>
    \A c \in Range(main_only) :
      /\ \A i \in 1..NRows : VariantOut(i)[c] = <<>>
      /\ MainOut[c] = IF c = h.TITLE /\ main_title # None THEN main_title
                      ELSE TemplateRow[c]

\* the per-variant data columns as the claim lists them
PerVariantCols ==
  (Range(h.PRICE_COLS) \cup (Range(h.PARAM_COLS) \ Range(common_param_cols))
   \cup {h.EAN, h.STOCK, h.WEIGHT}) \ {None}

RoleCols ==
  ({h.PRODUCT_CODE, h.VARIANT_YN, h.VARIANT_CODE, h.MAIN_YN, h.ACTIVE_YN,
    h.ARCHIVED_YN, h.CAN_ADD_TO_BASKET_YN, h.IS_PRICES_WITH_VAT_YN, h.IMAGES}
   \cup Range(main_only) \cup Range(h.LABEL_COLS)) \ {None}

OutWithoutParam ==
  assemble(main_flags(SetItem(TemplateRow, h.PRODUCT_CODE, parent_code),
                      df, h, None, main_title),
           variants, cols)

\* C10: a supplied name that matches no parameter column changes nothing:
\* the output equals the output for no distinguishing parameter.
C10_UnresolvedIgnored ==
  (Done /\ ParamUnresolved) => out = OutWithoutParam

\* the template position lies outside 0..N-1 for the N rows of the input
TemplateIndexOutside == template_index < 0 \/ template_index >= NRows

\* C11: a template row index outside 0..N-1, too large or negative, makes
\* the transform fail: no row is ever taken as the MAIN template and no
\* output dataset is produced.
C11_OutOfRangeFails ==
  TemplateIndexOutside => (base = <<>> /\ out = <<>> /\ ~Done)

\* what the code does guarantee: a position outside -N..N-1 raises at line
\* 135 before any row is used
C11_BeyondBothEndsFails ==
  (template_index < -NRows \/ template_index >= NRows)
    => (base = <<>> /\ out = <<>> /\ ~Done)

C11_BeyondBothEndsWitness ==
  /\ NRows >= 1
  /\ template_index \in {-(NRows + 1), NRows}
  /\ pc = "error"
  /\ err = "IndexError"

\* a negative position in -N..-1 returns an output whose MAIN row was made
\* from the row counted from the end
C11_NegativeUsesLastRow ==
  /\ Done
  /\ NRows >= 2
  /\ template_index = -1
  /\ \E c \in Range(cols) : /\ MainOut[c] = df_in.rows[NRows][c]
                            /\ MainOut[c] # df_in.rows[1][c]

\* the second call of build_variants has finished, by returning or raising
\* (the first call returned, or there would be no second)
SecondRunOver == run = 2 /\ pc \in {"done", "error"}

\* C12: running build_variants twice on the same dataset with the same
\* arguments gives identical results: the second call returns the output
\* the first call returned (or raises as the first call raised).
C12_SecondRunSame ==
  SecondRunOver => (out = first_run.out /\ err = "none")

\* the part of C12 about the input: a call that returned left the dataset
\* as it was given, rows and column set
C12_InputUnchanged ==
  Done => df = df_in

\* what the code does guarantee: a call that raised left the dataset alone
C12_RaisedLeavesInput ==
  pc = "error" => df = df_in

C12_RaisedWitness ==
  pc = "error" /\ err = "RuntimeError" /\ df = df_in /\ NRows >= 1

\* the first call returned, and the second call returned a dataset with the
\* columns the first call added to its input
C12_SecondRunWider ==
  /\ run = 2
  /\ Done
  /\ Len(out.columns) > Len(first_run.out.columns)
  /\ <<"[","M","A","I","N","_","Y","N","]">> \in Range(out.columns)
  /\ <<"[","M","A","I","N","_","Y","N","]">> \notin Range(first_run.out.columns)
====
